---- MODULE Spec2Model ----
(***************************************************************************)
(* A model of remedy_py.RemedyAPIClient.RemedyClient: one session object   *)
(* talking to one Remedy ITSM server.  The session is single-threaded and  *)
(* every operation is a synchronous call, so each operation is one action; *)
(* the answers of the server are the inputs of the action.  Every action   *)
(* records the call in `last': its arguments, the requests it issued (in   *)
(* order), the responses it got, and how it ended (a returned value or the *)
(* exception that left the call).                                          *)
(***************************************************************************)
EXTENDS Integers, Sequences, FiniteSets, TLC

VARIABLES
    phase,       \* "new": no client yet; "live": __init__ returned; "failed": __init__ raised
    host,        \* self.host
    port,        \* self.port
    verify,      \* self.verify
    base_url,    \* self.base_url
    isLoggedin,  \* self.isLoggedin
    reqHeaders,  \* self.reqHeaders, the cached header set
    issued,      \* server side: number of tokens the login endpoint has issued to this session
    released,    \* server side: tokens a successful /jwt/logout has released
    builds,      \* history: build_request_headers calls since the last release_token call
    buildLogins, \* history: login requests those calls issued
    firstToken,  \* history: the token carried by the result of the first of those calls
    last         \* history: the last call

vars == <<phase, host, port, verify, base_url, isLoggedin, reqHeaders,
          issued, released, builds, buildLogins, firstToken, last>>

----------------------------------------------------------------------------
(* Bounds of the model. *)

\* The login endpoint issues at most this many tokens in one behaviour.
MaxLogins == 3
\* A caller-supplied header mapping has at most this many keys.
MaxHdrs == 2
\* A query answer lists at most this many entries.
MaxEntries == 2

----------------------------------------------------------------------------
(* RemedyConstants.py *)

DEFAULT_HTTP_PORT == 8008
DEFAULT_HTTPS_PORT == 8443
REQUEST_PREFIX == "/arsys/v1/entry"
DEFAULT_TIMEOUT == 30

HTTP_BASE_URL(h, p) == "http://" \o h \o ":" \o ToString(p) \o "/api"
HTTPS_BASE_URL(h, p) == "https://" \o h \o ":" \o ToString(p) \o "/api"

----------------------------------------------------------------------------
(* Python values. *)

\* The port argument when the caller passes none (port=None).
NoPort == -1

\* Python truthiness of the port argument: None and 0 are false.
Truthy(p) == p # NoPort /\ p # 0

\* A Python dict with string keys is a function; these build and update one.
EmptyDict == [k \in {} |-> ""]
DictSet(d, key, val) == [k \in (DOMAIN d) \cup {key} |-> IF k = key THEN val ELSE d[k]]

\* An optional argument: None, or a value.
None == [isNone |-> TRUE, items |-> <<>>]
Some(items) == [isNone |-> FALSE, items |-> items]

\* str.lower() on the header names the model uses.
Lower(key) ==
    CASE key = "Authorization" -> "authorization"
      [] key = "Content-Type"  -> "content-type"
      [] key = "CONTENT-TYPE"  -> "content-type"
      [] key = "Accept"        -> "accept"
      [] OTHER                 -> key

----------------------------------------------------------------------------
(* The server, as the client sees it. *)

\* The i-th token the login endpoint issues.
Token(i) == "tok" \o ToString(i)

\* A decoded JSON document.  `values' stands for the fields of an entry and
\* `entries' lists the Entry IDs of the entries of a query answer.
Doc(values, entries) == [values |-> values, entries |-> entries]
\* {} : the empty mapping.
EmptyMapping == Doc("", <<>>)

\* An HTTP response: status code, whether the body is empty, the body decoded
\* as JSON (meaningful when the body is not empty), the body as text.
Response(status, empty, json, text) ==
    [status |-> status, empty |-> empty, json |-> json, text |-> text]

\* requests.Response.raise_for_status: HTTPError on 4xx and 5xx.
RaisesForStatus(r) == r.status >= 400 /\ r.status < 600

FailStatuses == {404, 500}
Failures == {Response(s, FALSE, Doc("error", <<>>), "error") : s \in FailStatuses}

\* What POST /jwt/login can answer: an error, or 200 with the next token as body.
LoginResponses ==
    Failures \cup
    (IF issued < MaxLogins
        THEN {Response(200, FALSE, EmptyMapping, Token(issued + 1))}
        ELSE {})

\* What POST /jwt/logout can answer: an error, an empty 204, or 200 with a JSON body.
LogoutResponses ==
    Failures \cup {Response(204, TRUE, EmptyMapping, ""),
                   Response(200, FALSE, Doc("bye", <<>>), "")}

----------------------------------------------------------------------------
(* Requests. *)

\* A request: every one carries the headers and the timeout of the call.
Request(method, url, headers, body, timeout) ==
    [method |-> method, url |-> url, headers |-> headers, body |-> body, timeout |-> timeout]

\* The body of a request: form data, a JSON document, a multipart submission, or none.
NoBody == [kind |-> "none", values |-> EmptyDict, attach |-> <<>>]
FormBody(data) == [kind |-> "form", values |-> data, attach |-> <<>>]
JsonBody(values) == [kind |-> "json", values |-> values, attach |-> <<>>]

\* self.authHeaders
authHeaders == DictSet(EmptyDict, "content-type", "application/x-www-form-urlencoded")

\* The result of a call: the exception that left it ("" when it returned),
\* the returned value, and the requests issued and responses received.
Raised(exc, reqs, resps) ==
    [exc |-> exc, token |-> "", hdrs |-> EmptyDict, body |-> EmptyMapping, status |-> 0,
     reqs |-> reqs, resps |-> resps]
Returned(token, hdrs, body, status, reqs, resps) ==
    [exc |-> "", token |-> token, hdrs |-> hdrs, body |-> body, status |-> status,
     reqs |-> reqs, resps |-> resps]

----------------------------------------------------------------------------
(* Session / authentication. *)

\* InitPort with the two default ports taken for each other.
InitPort_SwappedDefaults(portArg, verifyArg) ==
    IF verifyArg
        THEN (IF Truthy(portArg) THEN portArg ELSE DEFAULT_HTTP_PORT)
        ELSE (IF Truthy(portArg) THEN portArg ELSE DEFAULT_HTTPS_PORT)

\* self.port and self.base_url of __init__.
InitPort(portArg, verifyArg) ==
    IF verifyArg
        THEN (IF Truthy(portArg) THEN portArg ELSE DEFAULT_HTTPS_PORT)
        ELSE (IF Truthy(portArg) THEN portArg ELSE DEFAULT_HTTP_PORT)

InitBaseUrl(hostArg, portVal, verifyArg) ==
    IF verifyArg THEN HTTPS_BASE_URL(hostArg, portVal) ELSE HTTP_BASE_URL(hostArg, portVal)

\* get_token with the server answering r.  The token of the result is the
\* response body decoded to text (r.text); isLoggedin becomes TRUE exactly
\* when the call returns.
get_token(base, r) ==
    LET req == Request("POST", base \o "/jwt/login", authHeaders,
                       FormBody(DictSet(DictSet(EmptyDict, "username", "user"),
                                        "password", "secret")),
                       DEFAULT_TIMEOUT)
    IN IF RaisesForStatus(r)
          THEN Raised("HTTPError", <<req>>, <<r>>)
          ELSE Returned(r.text, EmptyDict, EmptyMapping, 0, <<req>>, <<r>>)

\* MergeHeaders storing every key as the caller wrote it.
RECURSIVE MergeHeaders_KeepCase(_, _)
MergeHeaders_KeepCase(hdrs, items) ==
    IF items = <<>> THEN hdrs
    ELSE MergeHeaders_KeepCase(DictSet(hdrs, items[1][1], items[1][2]), Tail(items))

\* The loop of build_request_headers over new_headers.keys(), in insertion order.
RECURSIVE MergeHeaders(_, _)
MergeHeaders(hdrs, items) ==
    IF items = <<>> THEN hdrs
    ELSE MergeHeaders(DictSet(hdrs, Lower(items[1][1]), items[1][2]), Tail(items))

\* has_content_type of build_request_headers.
HasContentType(hdrs) == \E key \in DOMAIN hdrs : "content-type" = Lower(key)

\* build_request_headers(new_headers) called with self.isLoggedin = loggedIn and
\* the server answering r to the login request, when one is issued.  `token' is
\* bound only on the path that logs in: reading it on the other path raises
\* UnboundLocalError.
build_request_headers(base, loggedIn, new_headers, r) ==
    LET t == get_token(base, r)
    IN IF loggedIn
          THEN Raised("UnboundLocalError", <<>>, <<>>)
          ELSE IF t.exc # ""
                  THEN t
                  ELSE LET h0 == DictSet(EmptyDict, "Authorization", "AR-JWT " \o t.token)
                           h1 == IF new_headers.isNone THEN h0
                                 ELSE MergeHeaders(h0, new_headers.items)
                           h2 == IF HasContentType(h1) THEN h1
                                 ELSE DictSet(h1, "content-type", "application/json")
                       IN Returned(t.token, h2, EmptyMapping, 0, t.reqs, t.resps)

\* self.isLoggedin after build_request_headers: get_token sets it when it returns.
LoggedInAfterBuild(loggedIn, res) == loggedIn \/ (res.exc = "" /\ Len(res.reqs) = 1)

\* release_token with the server answering r.  On the path that is not logged
\* in response_json is never bound, and the return statement raises.
release_token(base, loggedIn, hdrs, r) ==
    LET req == Request("POST", base \o "/jwt/logout", hdrs, NoBody, DEFAULT_TIMEOUT)
    IN IF loggedIn
          THEN IF RaisesForStatus(r)
                  THEN Raised("HTTPError", <<req>>, <<r>>)
                  ELSE Returned("", EmptyDict, IF r.empty THEN EmptyMapping ELSE r.json,
                                r.status, <<req>>, <<r>>)
          ELSE Raised("UnboundLocalError", <<>>, <<>>)

----------------------------------------------------------------------------
(* Form entry operations. *)

\* sep.join(list)
RECURSIVE Join(_, _)
Join(sep, list) ==
    IF list = <<>> THEN ""
    ELSE IF Len(list) = 1 THEN list[1]
    ELSE list[1] \o sep \o Join(sep, Tail(list))

\* The url of one entry of a form.
EntryUrl(base, form_name, req_id) == base \o REQUEST_PREFIX \o "/" \o form_name \o "/" \o req_id

\* response.json(): the decoded body; an empty body is no JSON document.
JsonOf(r, reqs, resps) ==
    IF r.empty THEN Raised("JSONDecodeError", reqs, resps)
    ELSE Returned("", EmptyDict, r.json, r.status, reqs, resps)

\* get_form_entry with the server answering r.
get_form_entry(base, hdrs, form_name, req_id, r) ==
    LET req == Request("GET", EntryUrl(base, form_name, req_id), hdrs, NoBody, DEFAULT_TIMEOUT)
    IN IF RaisesForStatus(r) THEN Raised("HTTPError", <<req>>, <<r>>)
       ELSE JsonOf(r, <<req>>, <<r>>)

\* PutThenGet returning the empty mapping when the GET failed.
PutThenGet_IgnoreGetError(base, hdrs, form_name, entry_id, put, rPut, rGet, reqs, resps) ==
    LET g == get_form_entry(base, hdrs, form_name, entry_id, rGet)
    IN IF RaisesForStatus(rPut)
          THEN Raised("HTTPError", reqs \o <<put>>, resps \o <<rPut>>)
          ELSE Returned("", EmptyDict, g.body, rPut.status,
                        reqs \o <<put>> \o g.reqs, resps \o <<rPut>> \o g.resps)

\* The tail shared by update_form_entry, attach_file_to_incident and
\* add_worklog_to_incident: after the PUT request put got the answer rPut,
\* raise on an error status, else fetch the entry (answer rGet) and return the
\* fetched body with the status code of the PUT.
PutThenGet(base, hdrs, form_name, entry_id, put, rPut, rGet, reqs, resps) ==
    LET g == get_form_entry(base, hdrs, form_name, entry_id, rGet)
    IN IF RaisesForStatus(rPut)
          THEN Raised("HTTPError", reqs \o <<put>>, resps \o <<rPut>>)
          ELSE IF g.exc # ""
                  THEN Raised(g.exc, reqs \o <<put>> \o g.reqs, resps \o <<rPut>> \o g.resps)
                  ELSE Returned("", EmptyDict, g.body, rPut.status,
                                reqs \o <<put>> \o g.reqs, resps \o <<rPut>> \o g.resps)

\* update_form_entry returning the status code of the GET.
update_form_entry_GetStatus(base, hdrs, form_name, req_id, values, rPut, rGet) ==
    LET put == Request("PUT", EntryUrl(base, form_name, req_id), hdrs,
                       JsonBody(values), DEFAULT_TIMEOUT)
        res == PutThenGet(base, hdrs, form_name, req_id, put, rPut, rGet, <<>>, <<>>)
    IN IF res.exc # "" THEN res ELSE [res EXCEPT !.status = rGet.status]

\* update_form_entry with the server answering rPut to the PUT and rGet to the GET.
update_form_entry(base, hdrs, form_name, req_id, values, rPut, rGet) ==
    LET put == Request("PUT", EntryUrl(base, form_name, req_id), hdrs,
                           JsonBody(values), DEFAULT_TIMEOUT)
    IN PutThenGet(base, hdrs, form_name, req_id, put, rPut, rGet, <<>>, <<>>)

\* delete_form_entry sending its request a second time after an error status.
delete_form_entry_Retry(base, hdrs, form_name, req_id, r) ==
    LET req == Request("DELETE", EntryUrl(base, form_name, req_id), hdrs, NoBody, DEFAULT_TIMEOUT)
    IN IF RaisesForStatus(r) THEN Raised("HTTPError", <<req, req>>, <<r, r>>)
       ELSE Returned("", EmptyDict, IF r.empty THEN EmptyMapping ELSE r.json, r.status,
                     <<req>>, <<r>>)

\* delete_form_entry with the server answering r.
delete_form_entry(base, hdrs, form_name, req_id, r) ==
    LET req == Request("DELETE", EntryUrl(base, form_name, req_id), hdrs, NoBody, DEFAULT_TIMEOUT)
    IN IF RaisesForStatus(r) THEN Raised("HTTPError", <<req>>, <<r>>)
       ELSE Returned("", EmptyDict, IF r.empty THEN EmptyMapping ELSE r.json, r.status,
                     <<req>>, <<r>>)

\* advanced_query with the server answering r; return_values is None or a list.
advanced_query(base, hdrs, form_name, query, return_values, r) ==
    LET fields == IF return_values.isNone THEN ""
                  ELSE "fields=values(" \o Join(", ", return_values.items) \o ")&"
        req == Request("GET",
                           base \o REQUEST_PREFIX \o "/" \o form_name \o "?" \o fields \o "q=" \o query,
                           hdrs, NoBody, DEFAULT_TIMEOUT)
    IN IF RaisesForStatus(r) THEN Raised("HTTPError", <<req>>, <<r>>)
       ELSE JsonOf(r, <<req>>, <<r>>)

\* create_form_entry: hdrs is the header set the request is sent with (the
\* cached one, or the one build_request_headers made for this call), pre the
\* requests and responses of that build, r the answer of the server.
\* str(["Incident Number"]) is the field list when return_values is empty.
create_form_entry(base, hdrs, form_name, values, return_values, timeout, pre, r) ==
    LET field_list == IF Len(return_values) = 0 THEN "['Incident Number']"
                      ELSE Join(", ", return_values)
        req == Request("POST",
                           base \o REQUEST_PREFIX \o "/" \o form_name
                                \o "?fields=values(" \o field_list \o ")",
                           hdrs, JsonBody(values), timeout)
    IN IF RaisesForStatus(r)
          THEN Raised("HTTPError", pre.reqs \o <<req>>, pre.resps \o <<r>>)
          ELSE JsonOf(r, pre.reqs \o <<req>>, pre.resps \o <<r>>)

----------------------------------------------------------------------------
(* Composite incident operations. *)

\* An optional string argument that is None.
NoneStr == "<None>"

\* os.sep
sep == "/"

\* 10 * 1024 * 1024, the most bytes attach_file_to_incident reads.
TenMiB == 10 * 1024 * 1024

\* The attachment content: the bytes [from, to) of the file, or a text.
Bytes(from, to) == [kind |-> "bytes", from |-> from, to |-> to, text |-> ""]
Text(t) == [kind |-> "text", from |-> 0, to |-> 0, text |-> t]

\* ReadAttachment reading the whole file whatever its size.
ReadAttachment_WholeFile(filepath, filename, file) ==
    IF file.failAt \in {"getsize", "open", "read"}
          \/ (file.failAt = "seek" /\ file.size >= TenMiB)
       THEN Text("File " \o filepath \o sep \o filename \o " could not be read")
       ELSE Bytes(0, file.size)

\* ReadAttachment naming the file without its directory in the placeholder.
ReadAttachment_FilenameOnly(filepath, filename, file) ==
    IF file.failAt \in {"getsize", "open", "read"}
          \/ (file.failAt = "seek" /\ file.size >= TenMiB)
       THEN Text("File " \o filename \o " could not be read")
       ELSE Bytes(IF file.size >= TenMiB THEN file.size - TenMiB ELSE 0, file.size)

\* The try block of attach_file_to_incident on a file of file.size bytes
\* where the step file.failAt ("" for none) raises: getsize, open, seek when
\* the size is at least 10 MiB, read.
ReadAttachment(filepath, filename, file) ==
    LET path == filepath \o sep \o filename
        pos  == IF file.size >= TenMiB THEN file.size - TenMiB ELSE 0
        fails == \/ file.failAt \in {"getsize", "open", "read"}
                 \/ file.failAt = "seek" /\ file.size >= TenMiB
    IN IF fails THEN Text("File " \o path \o " could not be read")
       ELSE Bytes(pos, file.size)

\* The query both composite operations start with.
IncidentQuery(req_id) == "'Incident Number'=\"" \o req_id \o "\""

\* FirstEntryId taking the last entry of the answer.
FirstEntryId_Last(doc) == doc.entries[Len(doc.entries)]

\* incident['entries'][0]["values"]["Entry ID"]
FirstEntryId(doc) == doc.entries[1]

\* The values of the entry part attach_file_to_incident submits.
AttachValues(filename, details, view_access) ==
    [k \in {"z1D_Details", "z1D_View_Access", "z1D_Activity_Type", "z1D_Secure_Log",
            "z2AF_Act_Attachment_1"} |->
        CASE k = "z1D_Details" -> IF details # NoneStr THEN details ELSE "No details entered"
          [] k = "z1D_View_Access" -> IF view_access # NoneStr THEN view_access ELSE "Public"
          [] k = "z1D_Activity_Type" -> "General Information"
          [] k = "z1D_Secure_Log" -> "Yes"
          [] OTHER -> filename]

\* attach_file_to_incident with the server answering rQ to the query, rPut to
\* the PUT and rGet to the GET.  The PUT carries the Authorization header
\* only; indexing an empty list of entries raises IndexError.
attach_file_to_incident(base, hdrs, req_id, filepath, filename, form_name, content_type, details, view_access, file, rQ, rPut, rGet) ==
    LET q == advanced_query(base, hdrs, form_name, IncidentQuery(req_id), Some(<<"Entry ID">>), rQ)
        entry_id == FirstEntryId(q.body)
        body == [kind |-> "multipart", values |-> AttachValues(filename, details, view_access),
                 attach |-> <<filename, ReadAttachment(filepath, filename, file), content_type>>]
        put == Request("PUT", EntryUrl(base, form_name, entry_id),
                       DictSet(EmptyDict, "Authorization", hdrs["Authorization"]),
                       body, DEFAULT_TIMEOUT)
    IN IF q.exc # "" THEN q
       ELSE IF q.body.entries = <<>> THEN Raised("IndexError", q.reqs, q.resps)
       ELSE PutThenGet(base, hdrs, form_name, entry_id, put, rPut, rGet, q.reqs, q.resps)

\* x or default, for an optional string.
Or(x, default) == IF x = NoneStr \/ x = "" THEN default ELSE x

\* WorklogValues with details or "No details entered".
WorklogValues_DetailsOr(details, activity_type, view_access, secure_log) ==
    [k \in {"z1D_Details", "z1D_View_Access", "z1D_Activity_Type", "z1D_Secure_Log"} |->
        CASE k = "z1D_Details" -> Or(details, "No details entered")
          [] k = "z1D_View_Access" -> Or(view_access, "Public")
          [] k = "z1D_Activity_Type" -> Or(activity_type, "General Information")
          [] OTHER -> Or(secure_log, "Yes")]

\* The values add_worklog_to_incident submits.
WorklogValues(details, activity_type, view_access, secure_log) ==
    [k \in {"z1D_Details", "z1D_View_Access", "z1D_Activity_Type", "z1D_Secure_Log"} |->
        CASE k = "z1D_Details" -> IF details # NoneStr THEN details ELSE "No details entered"
          [] k = "z1D_View_Access" -> Or(view_access, "Public")
          [] k = "z1D_Activity_Type" -> Or(activity_type, "General Information")
          [] OTHER -> Or(secure_log, "Yes")]

\* add_worklog_to_incident writing to the entry "" when the query lists none.
add_worklog_to_incident_NoEntryCheck(base, hdrs, req_id, details, activity_type, view_access, secure_log, rQ, rPut, rGet) ==
    LET form_name == "HPD:Help Desk"
        q == advanced_query(base, hdrs, form_name, IncidentQuery(req_id), Some(<<"Entry ID">>), rQ)
        entry_id == IF q.body.entries = <<>> THEN "" ELSE FirstEntryId(q.body)
        put == Request("PUT", EntryUrl(base, form_name, entry_id), hdrs,
                       JsonBody(WorklogValues(details, activity_type, view_access, secure_log)),
                       DEFAULT_TIMEOUT)
    IN IF q.exc # "" THEN q
       ELSE PutThenGet(base, hdrs, form_name, entry_id, put, rPut, rGet, q.reqs, q.resps)

\* add_worklog_to_incident, likewise, on the form HPD:Help Desk.
add_worklog_to_incident(base, hdrs, req_id, details, activity_type, view_access, secure_log, rQ, rPut, rGet) ==
    LET form_name == "HPD:Help Desk"
        q == advanced_query(base, hdrs, form_name, IncidentQuery(req_id), Some(<<"Entry ID">>), rQ)
        entry_id == FirstEntryId(q.body)
        put == Request("PUT", EntryUrl(base, form_name, entry_id), hdrs,
                       JsonBody(WorklogValues(details, activity_type, view_access, secure_log)),
                       DEFAULT_TIMEOUT)
    IN IF q.exc # "" THEN q
       ELSE IF q.body.entries = <<>> THEN Raised("IndexError", q.reqs, q.resps)
       ELSE PutThenGet(base, hdrs, form_name, entry_id, put, rPut, rGet, q.reqs, q.resps)

----------------------------------------------------------------------------
(* The inputs of the operations. *)

Hosts == {"remedy.example.com", "10.0.0.5"}
\* port=None, port=0 and an explicit port.
PortArgs == {NoPort, 0, 8080}

\* The header names and values callers pass.
HeaderKeys == {"Content-Type", "content-type", "Accept", "Authorization"}
HeaderValues == {"text/plain", "application/xml"}

\* The dicts of at most n items over the keys K (a dict keeps its items in
\* insertion order and holds a key once).
RECURSIVE DictItems(_, _)
DictItems(K, n) ==
    IF n = 0 THEN {<<>>}
    ELSE DictItems(K, n - 1) \cup
         {Append(d, <<k, v>>) : d \in {x \in DictItems(K, n - 1) : Len(x) = n - 1},
                                k \in K, v \in HeaderValues}
WellFormed(d) == \A i, j \in 1..Len(d) : i # j => d[i][1] # d[j][1]
HeaderDicts == {d \in DictItems(HeaderKeys, MaxHdrs) : WellFormed(d)}

\* new_headers of build_request_headers: None or a dict.
NewHeaders == {None} \cup {Some(d) : d \in HeaderDicts}
\* headers of create_form_entry: None or one of two dicts.
CreateHeaders == {None, Some(<<>>), Some(<<<<"Content-Type", "text/plain">>>>)}

FormNames == {"HPD:Help Desk", "HPD:IncidentInterface_Create"}
EntryIds == {"E1", "E2"}
IncidentNumbers == {"INC000000000301"}
FieldValues == {DictSet(EmptyDict, "Status", "Assigned")}
ReturnValues == {<<>>, <<"Incident Number", "Request ID">>}
Queries == {IncidentQuery("INC000000000301")}

\* What the server can answer to the request for one entry, to a create, to
\* a query, to a PUT and to a DELETE.  A successful GET or POST of the REST
\* API answers with a JSON document; a PUT and a DELETE answer an empty 204
\* or a document.
EntryDocs == {Doc("fetched-1", <<>>), Doc("fetched-2", <<>>)}
GetResponses == Failures \cup {Response(200, FALSE, d, "") : d \in EntryDocs}
CreateResponses == Failures \cup {Response(201, FALSE, Doc("created", <<>>), "")}
RECURSIVE EntryLists(_)
EntryLists(n) ==
    IF n = 0 THEN {<<>>}
    ELSE EntryLists(n - 1) \cup
         {Append(l, e) : l \in {x \in EntryLists(n - 1) : Len(x) = n - 1}, e \in EntryIds}
QueryResponses ==
    Failures \cup {Response(200, FALSE, Doc("", l), "") : l \in EntryLists(MaxEntries)}
PutResponses ==
    Failures \cup {Response(204, TRUE, EmptyMapping, ""),
                   Response(200, FALSE, Doc("put-answer", <<>>), "")}
DeleteResponses == PutResponses

\* The files attached: sizes on both sides of the 10 MiB limit, each with
\* no failing step or one of the four steps of the try block failing.
FileSizes == {0, 1, TenMiB - 1, TenMiB, TenMiB + 1, 2 * TenMiB}
FailSteps == {"", "getsize", "open", "seek", "read"}
Files == [size : FileSizes, failAt : FailSteps]

\* The calls of the composite operations: (form_name, details, view_access,
\* file) and (details, activity_type, view_access, secure_log).
AttachCalls ==
    {<<"HPD:Help Desk", NoneStr, "Public", [size |-> 512, failAt |-> ""]>>,
     <<"HPD:Help Desk", "", NoneStr, [size |-> TenMiB + 1, failAt |-> ""]>>,
     <<"HPD:Problem", "see log", "Internal", [size |-> 512, failAt |-> "open"]>>}
\* The calls attaching every one of the files.
FileCalls == {<<"HPD:Help Desk", NoneStr, NoneStr, f>> : f \in Files}
WorklogCalls ==
    {<<NoneStr, NoneStr, NoneStr, NoneStr>>,
     <<"", "", "", "">>,
     <<"rebooted", "Working Log", "Internal", "No">>}
\* The calls with each argument None, empty or a value.
AllWorklogCalls ==
    {NoneStr, "", "rebooted"} \X {NoneStr, "", "Working Log"}
        \X {NoneStr, "", "Internal"} \X {NoneStr, "", "No"}

----------------------------------------------------------------------------
(* The state machine. *)

\* The token of a header set that carries one, "" otherwise.
TokenOf(hdrs) ==
    IF "Authorization" \in DOMAIN hdrs
          /\ \E i \in 1..(MaxLogins + 1) : hdrs["Authorization"] = "AR-JWT " \o Token(i)
       THEN Token(CHOOSE i \in 1..(MaxLogins + 1) : hdrs["Authorization"] = "AR-JWT " \o Token(i))
       ELSE ""

\* The server's bookkeeping over the requests and responses of one call: a
\* login answered with success issues a token, a logout answered with success
\* releases the token the request carried.
Logins(res) ==
    Cardinality({i \in 1..Len(res.reqs) :
        res.reqs[i].url = base_url \o "/jwt/login" /\ ~RaisesForStatus(res.resps[i])})
ReleasedBy(res) ==
    {TokenOf(res.reqs[i].headers) : i \in {j \in 1..Len(res.reqs) :
        res.reqs[j].url = base_url \o "/jwt/logout" /\ ~RaisesForStatus(res.resps[j])}}

Call(op, args, res) == [op |-> op, args |-> args, res |-> res, relBefore |-> released]
NoCall == [op |-> "", args |-> [none |-> TRUE], res |-> Raised("", <<>>, <<>>), relBefore |-> {}]

\* What every call leaves behind.
Record(op, args, res) ==
    /\ last' = Call(op, args, res)
    /\ issued' = issued + Logins(res)
    /\ released' = released \cup ReleasedBy(res)

\* The history of the build_request_headers calls since the last release_token
\* call, counted from the first one that returned.
BuildHistory(res) ==
    IF builds = 0 /\ res.exc # ""
       THEN UNCHANGED <<builds, buildLogins, firstToken>>
       ELSE /\ builds' = IF builds < 2 THEN builds + 1 ELSE builds
            /\ buildLogins' = buildLogins + Len(res.reqs)
            /\ firstToken' = IF builds = 0 THEN res.token ELSE firstToken

Init ==
    /\ phase = "new"
    /\ host = ""
    /\ port = 0
    /\ verify = FALSE
    /\ base_url = ""
    /\ isLoggedin = FALSE
    /\ reqHeaders = EmptyDict
    /\ issued = 0
    /\ released = {}
    /\ builds = 0
    /\ buildLogins = 0
    /\ firstToken = ""
    /\ last = NoCall

\* What no operation of a live client changes: only __init__ assigns these.
config == <<phase, host, port, verify, base_url, reqHeaders>>

\* A live client whose caller is between two calls.
Idle == phase = "live" /\ last.op = ""

\* RemedyClient(host, username, password, port, verify): __init__ sets the
\* fields and caches the result of build_request_headers(); when that raises
\* there is no client.
Construct ==
    /\ phase \in {"new", "failed"}
    /\ last.op = ""
    /\ \E hostArg \in Hosts, portArg \in PortArgs, verifyArg \in BOOLEAN, r \in LoginResponses :
        LET p == InitPort(portArg, verifyArg)
            b == InitBaseUrl(hostArg, p, verifyArg)
            res == build_request_headers(b, FALSE, None, r)
        IN /\ base_url' = b
           /\ host' = hostArg
           /\ port' = p
           /\ verify' = verifyArg
           /\ IF res.exc = ""
                 THEN /\ phase' = "live"
                      /\ isLoggedin' = TRUE
                      /\ reqHeaders' = res.hdrs
                 ELSE /\ phase' = "failed"
                      /\ isLoggedin' = FALSE
                      /\ reqHeaders' = EmptyDict
           /\ builds' = IF res.exc = "" THEN 1 ELSE 0
           /\ buildLogins' = IF res.exc = "" THEN 1 ELSE 0
           /\ firstToken' = res.token
           /\ released' = {}
           /\ issued' = IF res.exc = "" THEN 1 ELSE 0
           /\ last' = Call("__init__",
                           [host |-> hostArg, port |-> portArg, verify |-> verifyArg], res)

\* The caller has taken the result (or the exception) of the last call and
\* goes on to its next call.
Return ==
    /\ last.op # ""
    /\ last' = NoCall
    /\ UNCHANGED <<config, isLoggedin, issued, released, builds, buildLogins, firstToken>>

\* client.get_token()
GetToken ==
    /\ Idle
    /\ \E r \in LoginResponses :
        LET res == get_token(base_url, r)
        IN /\ isLoggedin' = (isLoggedin \/ res.exc = "")
           /\ Record("get_token", [none |-> TRUE], res)
    /\ UNCHANGED <<config, builds, buildLogins, firstToken>>

\* client.build_request_headers(new_headers)
BuildRequestHeaders ==
    /\ Idle
    /\ \E new_headers \in NewHeaders, r \in LoginResponses :
        LET res == build_request_headers(base_url, isLoggedin, new_headers, r)
        IN /\ isLoggedin' = LoggedInAfterBuild(isLoggedin, res)
           /\ BuildHistory(res)
           /\ Record("build_request_headers", [new_headers |-> new_headers], res)
    /\ UNCHANGED config

\* release_token clearing isLoggedin before the answer of the server is known.
ReleaseToken_LogoutFirst ==
    /\ Idle
    /\ \E r \in LogoutResponses :
        Record("release_token", [wasLoggedin |-> isLoggedin],
               release_token(base_url, isLoggedin, reqHeaders, r))
    /\ isLoggedin' = FALSE
    /\ builds' = 0
    /\ buildLogins' = 0
    /\ firstToken' = ""
    /\ UNCHANGED config

\* client.release_token()
ReleaseToken ==
    /\ Idle
    /\ \E r \in LogoutResponses :
        LET res == release_token(base_url, isLoggedin, reqHeaders, r)
        IN /\ isLoggedin' = (isLoggedin /\ res.exc # "")
           /\ Record("release_token", [wasLoggedin |-> isLoggedin], res)
    /\ builds' = 0
    /\ buildLogins' = 0
    /\ firstToken' = ""
    /\ UNCHANGED config

\* client.create_form_entry(form_name, values, headers, return_values, timeout);
\* timeout 0 stands for timeout=None.
CreateFormEntry ==
    /\ Idle
    /\ \E form_name \in FormNames, values \in FieldValues, headers \in CreateHeaders,
          return_values \in ReturnValues, timeout \in {0, 5},
          rLogin \in LoginResponses, r \in CreateResponses :
        LET b == build_request_headers(base_url, isLoggedin, headers, rLogin)
            args == [form_name |-> form_name, values |-> values, headers |-> headers,
                     return_values |-> return_values, timeout |-> timeout]
            t == IF timeout = 0 THEN DEFAULT_TIMEOUT ELSE timeout
        IN IF headers.isNone
              THEN /\ Record("create_form_entry", args,
                             create_form_entry(base_url, reqHeaders, form_name, values,
                                               return_values, t, Raised("", <<>>, <<>>), r))
                   /\ UNCHANGED <<isLoggedin, builds, buildLogins, firstToken>>
              ELSE /\ isLoggedin' = LoggedInAfterBuild(isLoggedin, b)
                   /\ BuildHistory(b)
                   /\ Record("create_form_entry", args,
                             IF b.exc # "" THEN b
                             ELSE create_form_entry(base_url, b.hdrs, form_name, values,
                                                    return_values, t, b, r))
    /\ UNCHANGED config

\* client.get_form_entry(form_name, req_id)
GetFormEntry ==
    /\ Idle
    /\ \E form_name \in FormNames, req_id \in EntryIds, r \in GetResponses :
        Record("get_form_entry", [form_name |-> form_name, req_id |-> req_id],
               get_form_entry(base_url, reqHeaders, form_name, req_id, r))
    /\ UNCHANGED <<config, isLoggedin, builds, buildLogins, firstToken>>

\* client.update_form_entry(form_name, req_id, values)
UpdateFormEntry ==
    /\ Idle
    /\ \E form_name \in FormNames, req_id \in EntryIds, values \in FieldValues,
          rPut \in PutResponses, rGet \in GetResponses :
        Record("update_form_entry",
               [form_name |-> form_name, req_id |-> req_id, values |-> values],
               update_form_entry(base_url, reqHeaders, form_name, req_id, values, rPut, rGet))
    /\ UNCHANGED <<config, isLoggedin, builds, buildLogins, firstToken>>

\* client.delete_form_entry(form_name, req_id)
DeleteFormEntry ==
    /\ Idle
    /\ \E form_name \in FormNames, req_id \in EntryIds, r \in DeleteResponses :
        Record("delete_form_entry", [form_name |-> form_name, req_id |-> req_id],
               delete_form_entry(base_url, reqHeaders, form_name, req_id, r))
    /\ UNCHANGED <<config, isLoggedin, builds, buildLogins, firstToken>>

\* client.advanced_query(form_name, query, return_values)
AdvancedQuery ==
    /\ Idle
    /\ \E form_name \in FormNames, query \in Queries,
          return_values \in {None, Some(<<"Entry ID">>)}, r \in QueryResponses :
        Record("advanced_query",
               [form_name |-> form_name, query |-> query, return_values |-> return_values],
               advanced_query(base_url, reqHeaders, form_name, query, return_values, r))
    /\ UNCHANGED <<config, isLoggedin, builds, buildLogins, firstToken>>

\* client.attach_file_to_incident(req_id, filepath, filename, form_name,
\*                                content_type, details, view_access), with
\* the arguments and the file of one of calls.
AttachFile(calls) ==
    /\ Idle
    /\ \E req_id \in IncidentNumbers, c \in calls,
          rQ \in QueryResponses, rPut \in PutResponses, rGet \in GetResponses :
        Record("attach_file_to_incident",
               [req_id |-> req_id, filepath |-> "/var/log", filename |-> "app.log",
                form_name |-> c[1], content_type |-> "text/plain",
                details |-> c[2], view_access |-> c[3], file |-> c[4]],
               attach_file_to_incident(base_url, reqHeaders, req_id, "/var/log", "app.log",
                                       c[1], "text/plain", c[2], c[3], c[4],
                                       rQ, rPut, rGet))
    /\ UNCHANGED <<config, isLoggedin, builds, buildLogins, firstToken>>

AttachFileToIncident == AttachFile(AttachCalls)
AttachAnyFile == AttachFile(FileCalls)

\* client.add_worklog_to_incident(req_id, details, activity_type, view_access,
\*                                secure_log), with the arguments of one of calls.
AddWorklog(calls) ==
    /\ Idle
    /\ \E req_id \in IncidentNumbers, c \in calls,
          rQ \in QueryResponses, rPut \in PutResponses, rGet \in GetResponses :
        Record("add_worklog_to_incident",
               [req_id |-> req_id, details |-> c[1], activity_type |-> c[2],
                view_access |-> c[3], secure_log |-> c[4]],
               add_worklog_to_incident(base_url, reqHeaders, req_id, c[1], c[2], c[3], c[4],
                                       rQ, rPut, rGet))
    /\ UNCHANGED <<config, isLoggedin, builds, buildLogins, firstToken>>

AddWorklogToIncident == AddWorklog(WorklogCalls)
AddAnyWorklog == AddWorklog(AllWorklogCalls)

Next ==
    \/ Construct
    \/ Return
    \/ GetToken
    \/ BuildRequestHeaders
    \/ ReleaseToken
    \/ CreateFormEntry
    \/ GetFormEntry
    \/ UpdateFormEntry
    \/ DeleteFormEntry
    \/ AdvancedQuery
    \/ AttachFileToIncident
    \/ AddWorklogToIncident

Spec == Init /\ [][Next]_vars

\* A client used for the two composite operations only, over all the files
\* and all the worklog arguments.
NextIncident ==
    \/ Construct
    \/ Return
    \/ AttachAnyFile
    \/ AddAnyWorklog

SpecIncident == Init /\ [][NextIncident]_vars

----------------------------------------------------------------------------
(* The claims. *)

Reqs == last.res.reqs
Resps == last.res.resps
\* The indices of the requests of the last call with method m.
Sent(m) == {i \in 1..Len(Reqs) : Reqs[i].method = m}
\* The last call is one of the two composite incident operations.
Composite == last.op \in {"attach_file_to_incident", "add_worklog_to_incident"}
\* The form a composite operation works on.
CompositeForm ==
    IF last.op = "attach_file_to_incident" THEN last.args.form_name ELSE "HPD:Help Desk"
\* The url of entry e of form f, written out.
UrlOfEntry(f, e) == base_url \o "/arsys/v1/entry/" \o f \o "/" \o e

\* The last call ran build_request_headers: directly, or from create_form_entry
\* with per-call headers.
LastCallBuilt ==
    \/ last.op = "build_request_headers"
    \/ last.op = "create_form_entry" /\ ~last.args.headers.isNone
\* That run returned a header set (create_form_entry then went on to its POST).
BuildReturned ==
    \/ last.op = "build_request_headers" /\ last.res.exc = ""
    \/ last.op = "create_form_entry" /\ ~last.args.headers.isNone
          /\ \E i \in Sent("POST") : Reqs[i].url # base_url \o "/jwt/login"
\* The header set it returned.
BuiltHeaders ==
    IF last.op = "build_request_headers" THEN last.res.hdrs ELSE Reqs[Len(Reqs)].headers
\* The caller-supplied mapping it was called with, as a sequence of items.
CallerItems ==
    LET nh == IF last.op = "build_request_headers" THEN last.args.new_headers
              ELSE last.args.headers
    IN IF nh.isNone THEN <<>> ELSE nh.items

\* C1: a build_request_headers call that follows an earlier one on the same
\* session, with no release_token call in between, returns normally with the
\* token the earlier call returned, and the two calls together issued exactly
\* one login request.
C1_SecondBuildReusesToken ==
    (LastCallBuilt /\ builds = 2) =>
        /\ BuildReturned
        /\ buildLogins = 1
        /\ TokenOf(BuiltHeaders) = firstToken

\* C2: release_token on a session that is not authenticated returns the empty
\* mapping and 204, raises nothing and issues no request.
C2_LogoutWhenLoggedOutIsNoOp ==
    (last.op = "release_token" /\ ~last.args.wasLoggedin) =>
        /\ last.res.exc = ""
        /\ last.res.body = EmptyMapping
        /\ last.res.status = 204
        /\ Reqs = <<>>

\* C3: once release_token has succeeded the session is not authenticated and
\* its cached header set no longer holds the released token, and no request of
\* a later call carries a token that was released before the call.
C3_ReleasedTokenNotUsed ==
    /\ (last.op = "release_token" /\ last.args.wasLoggedin /\ last.res.exc = "") =>
            (~isLoggedin /\ TokenOf(reqHeaders) \notin released)
    /\ phase = "live" =>
            \A i \in 1..Len(Reqs) : TokenOf(Reqs[i].headers) \notin last.relBefore

\* C4: whenever the session is authenticated, the token of its cached header
\* set is the token the login endpoint issued to it most recently, and that
\* token has not been released.
C4_AuthenticatedTokenValid ==
    (phase = "live" /\ isLoggedin) =>
        /\ TokenOf(reqHeaders) = "tok" \o ToString(issued)
        /\ TokenOf(reqHeaders) \notin released

\* C5: update_form_entry issues a PUT of {"values": values} to the entry url,
\* then, only when the PUT succeeded, a GET of the same entry, and nothing
\* else; when both succeeded it returns the body of the GET with the status
\* code of the PUT, and it returns only then.
C5_UpdateReturnsGetBodyPutStatus ==
    last.op = "update_form_entry" =>
        LET url == UrlOfEntry(last.args.form_name, last.args.req_id)
        IN /\ Len(Reqs) \in {1, 2}
           /\ Reqs[1].method = "PUT"
           /\ Reqs[1].url = url
           /\ Reqs[1].body.kind = "json"
           /\ Reqs[1].body.values = last.args.values
           /\ (Len(Reqs) = 2) = (Resps[1].status < 400)
           /\ Len(Reqs) = 2 => (Reqs[2].method = "GET" /\ Reqs[2].url = url)
           /\ (last.res.exc = "") = (Len(Reqs) = 2 /\ Resps[2].status < 400)
           /\ last.res.exc = "" =>
                (last.res.body = Resps[2].json /\ last.res.status = Resps[1].status)
C5_Witness ==
    /\ last.op = "update_form_entry"
    /\ last.res.exc = ""
    /\ Resps[1].status = 204 /\ Resps[1].empty
    /\ Resps[2].status = 200
    /\ last.res.status = 204
    /\ last.res.body = [values |-> "fetched-2", entries |-> <<>>]

\* C6: a composite incident operation that returns has issued exactly three
\* requests: the GET of the query 'Incident Number'="<incident number>" asking
\* for the field Entry ID only, a PUT to the entry whose Entry ID is the first
\* of the query answer, and a GET of that entry; it returns the body of the
\* last GET with the status code of the PUT.
C6_CompositeThreeRequests ==
    (Composite /\ last.res.exc = "") =>
        LET first == Resps[1].json.entries[1]
        IN /\ Len(Reqs) = 3
           /\ Reqs[1].method = "GET"
           /\ Reqs[1].url = base_url \o "/arsys/v1/entry/" \o CompositeForm
                              \o "?fields=values(Entry ID)&q='Incident Number'=\""
                              \o last.args.req_id \o "\""
           /\ Reqs[2].method = "PUT"
           /\ Reqs[2].url = UrlOfEntry(CompositeForm, first)
           /\ Reqs[3].method = "GET"
           /\ Reqs[3].url = UrlOfEntry(CompositeForm, first)
           /\ last.res.body = Resps[3].json
           /\ last.res.status = Resps[2].status
C6_Witness ==
    /\ last.op = "attach_file_to_incident"
    /\ last.res.exc = ""
    /\ Resps[1].json.entries = <<"E2", "E1">>
    /\ Resps[2].status = 204
    /\ Resps[3].status = 200
    /\ last.res.status = 204

\* C7: a composite incident operation whose query succeeded with an empty
\* list of entries ends with NotFoundError.
C7_EmptyQueryIsNotFoundError ==
    (Composite /\ Len(Resps) >= 1 /\ Resps[1].status < 400
        /\ Resps[1].json.entries = <<>>) => last.res.exc = "NotFoundError"

\* C8: a composite incident operation issues its PUT only as its second
\* request, after a query that succeeded and listed at least one entry; when
\* the query failed or listed no entry the operation ends in error after that
\* one request.
C8_NoWriteWithoutEntry ==
    Composite =>
        /\ Len(Reqs) >= 1
        /\ Reqs[1].method = "GET"
        /\ \A i \in Sent("PUT") :
                i = 2 /\ Resps[1].status < 400 /\ Resps[1].json.entries # <<>>
        /\ (Resps[1].status >= 400 \/ Resps[1].json.entries = <<>>) =>
                (Len(Reqs) = 1 /\ last.res.exc # "")
C8_Witness ==
    /\ last.op = "add_worklog_to_incident"
    /\ Resps[1].status = 200
    /\ Resps[1].json.entries = <<>>
    /\ Len(Reqs) = 1
    /\ last.res.exc # ""

\* The base url the claim C9 describes for a port p.
C9_Url(p) ==
    (IF last.args.verify THEN "https://" ELSE "http://")
        \o last.args.host \o ":" \o ToString(p) \o "/api"
C9_Default == IF last.args.verify THEN 8443 ELSE 8008

\* C9, as claimed: the base url of a constructed client has the scheme of the
\* verify flag, the host, and the port argument whenever one is given, else
\* 8443 with verify and 8008 without.
C9_BaseUrlAsClaimed ==
    (last.op = "__init__" /\ last.res.exc = "") =>
        base_url = C9_Url(IF last.args.port # NoPort THEN last.args.port ELSE C9_Default)

\* C9, amended: the port of the base url is the port argument when one is
\* given and is not 0; with no port argument, or the port argument 0, it is
\* 8443 with verify and 8008 without.
C9_BaseUrl ==
    (last.op = "__init__" /\ last.res.exc = "") =>
        base_url = C9_Url(IF last.args.port # NoPort /\ last.args.port # 0
                             THEN last.args.port ELSE C9_Default)
C9_Witness ==
    /\ last.op = "__init__"
    /\ last.res.exc = ""
    /\ last.args.port = 0
    /\ ~last.args.verify
    /\ base_url = "http://10.0.0.5:8008/api"

\* The names of the content-type header in the letter cases callers use.
ContentTypeNames == {"content-type", "Content-Type", "CONTENT-TYPE"}

\* C10: a header set build_request_headers returns holds Authorization:
\* AR-JWT <the token just issued> and exactly one content-type entry, whatever
\* the letter case of the keys; its value is the one the caller gave under a
\* content-type key of any letter case, and application/json when the caller
\* gave none.
C10_HeadersOfBuild ==
    BuildReturned =>
        LET h == BuiltHeaders
            given == {i \in 1..Len(CallerItems) : CallerItems[i][1] \in ContentTypeNames}
            held == {k \in DOMAIN h : k \in ContentTypeNames}
        IN /\ "Authorization" \in DOMAIN h
           /\ h["Authorization"] = "AR-JWT " \o "tok" \o ToString(issued)
           /\ Cardinality(held) = 1
           /\ \A k \in held :
                IF given = {} THEN h[k] = "application/json"
                ELSE h[k] \in {CallerItems[i][2] : i \in given}
C10_Witness ==
    /\ last.op = "build_request_headers"
    /\ last.res.exc = ""
    /\ last.args.new_headers = [isNone |-> FALSE, items |-> <<<<"Content-Type", "text/plain">>>>]
    /\ last.res.hdrs["content-type"] = "text/plain"
    /\ "application/json" \notin {last.res.hdrs[k] : k \in DOMAIN last.res.hdrs}

\* The file of the last attach_file_to_incident call and the content of the
\* file part of its PUT.
AttachedFile == last.args.file
AttachPut == Reqs[2]
AttachedContent == AttachPut.body.attach[2]
AttachWrote == last.op = "attach_file_to_incident" /\ Sent("PUT") # {}

\* C11: for a readable file of S bytes the content attached is the bytes of
\* the file from 0 to S when S < 10 MiB and from S - 10 MiB to S when
\* S >= 10 MiB: always a suffix of the file, of length min(S, 10 MiB).  The
\* seek is a step of the read exactly when S >= 10 MiB, a file of exactly
\* 10 MiB included: a failing seek changes the content only then.
C11_AttachedContentIsTail ==
    AttachWrote =>
        LET S == AttachedFile.size
            L == 10485760
            c == AttachedContent
        IN /\ AttachedFile.failAt = "" =>
                /\ c.kind = "bytes"
                /\ c.to = S
                /\ c.from = (IF S < L THEN 0 ELSE S - L)
                /\ c.to - c.from = (IF S < L THEN S ELSE L)
                /\ c.to - c.from <= L
           /\ AttachedFile.failAt = "seek" => ((c.kind = "text") = (S >= L))
C11_Witness ==
    /\ AttachWrote
    /\ AttachedFile = [size |-> 10485761, failAt |-> ""]
    /\ AttachedContent = [kind |-> "bytes", from |-> 1, to |-> 10485761, text |-> ""]

\* C12: when a step of reading the file raises (getsize, open, read, or the
\* seek of a file of 10 MiB or more) attach_file_to_incident raises no error
\* of its own: after a query that listed an entry it puts the text "File
\* <filepath>/<filename> could not be read" as the content, and when the PUT
\* succeeded it issues the GET and, when that succeeded too, returns the
\* fetched entry with the status of the PUT.
C12_ReadFailed ==
    /\ last.op = "attach_file_to_incident"
    /\ \/ AttachedFile.failAt \in {"getsize", "open", "read"}
       \/ AttachedFile.failAt = "seek" /\ AttachedFile.size >= 10485760
C12_UnreadableFileIsPlaceholder ==
    C12_ReadFailed =>
        /\ last.res.exc \in {"", "HTTPError", "IndexError"}
        /\ (Resps[1].status < 400 /\ Resps[1].json.entries # <<>>) =>
              /\ Len(Reqs) >= 2
              /\ AttachPut.method = "PUT"
              /\ AttachedContent.kind = "text"
              /\ AttachedContent.text = "File " \o last.args.filepath \o "/"
                                           \o last.args.filename \o " could not be read"
              /\ Resps[2].status < 400 =>
                    /\ Len(Reqs) = 3
                    /\ Reqs[3].method = "GET"
                    /\ Resps[3].status < 400 =>
                          /\ last.res.exc = ""
                          /\ last.res.body = Resps[3].json
                          /\ last.res.status = Resps[2].status
C12_Witness ==
    /\ last.op = "attach_file_to_incident"
    /\ AttachedFile = [size |-> 20971520, failAt |-> "seek"]
    /\ Len(Reqs) = 3
    /\ AttachedContent.text = "File /var/log/app.log could not be read"
    /\ last.res.exc = ""
    /\ last.res.status = 204
    /\ last.res.body = [values |-> "fetched-1", entries |-> <<>>]

\* The most requests one call of an operation issues: the login of __init__,
\* get_token and build_request_headers, the logout, the login and the POST of
\* create_form_entry, the PUT and the GET of update_form_entry, the query, the
\* PUT and the GET of a composite operation, and one request otherwise.
C13_MostRequests ==
    CASE last.op \in {"update_form_entry", "create_form_entry"} -> 2
      [] Composite -> 3
      [] OTHER -> 1

\* C13: no call of any operation issues a request twice or more requests
\* than it has steps; every request got one response, and a response with a
\* 4xx/5xx status is the last one of its call, which then ends with the
\* HTTPError of that response.
C13_NoRetryFailFast ==
    last.op # "" =>
        /\ Len(Resps) = Len(Reqs)
        /\ Len(Reqs) <= C13_MostRequests
        /\ \A i, j \in 1..Len(Reqs) : i # j => Reqs[i] # Reqs[j]
        /\ \A i \in 1..Len(Resps) :
              Resps[i].status >= 400 => (i = Len(Reqs) /\ last.res.exc = "HTTPError")
C13_Witness ==
    /\ last.op = "add_worklog_to_incident"
    /\ Len(Reqs) = 2
    /\ Resps[1].status = 200
    /\ Resps[2].status = 500
    /\ last.res.exc = "HTTPError"

\* The last call is one of the four operations of one request.
C14_Op == last.op \in {"create_form_entry", "get_form_entry", "advanced_query",
                       "delete_form_entry"}
\* The result the claim C14 describes for the answer r.
C14_Result(r) ==
    /\ last.res.exc = ""
    /\ last.res.status = r.status
    /\ last.res.body = (IF r.empty THEN EmptyMapping ELSE r.json)

\* C14: create_form_entry, get_form_entry, advanced_query and
\* delete_form_entry issue exactly one request each and, when it is answered
\* with success, return the decoded body and the status code of the answer;
\* delete_form_entry returns the empty mapping for an empty body.
C14_OneRequestBodyAndStatus ==
    C14_Op =>
        /\ Len(Reqs) = 1
        /\ Resps[1].status < 400 => C14_Result(Resps[1])

\* What holds of the four operations: the same for every call but
\* create_form_entry with a headers argument, which runs
\* build_request_headers first.
C14_WithCachedHeaders ==
    (C14_Op /\ ~LastCallBuilt) =>
        /\ Len(Reqs) = 1
        /\ Resps[1].status < 400 => C14_Result(Resps[1])

\* The last call is an add_worklog_to_incident that got as far as its PUT.
WorklogWrote == last.op = "add_worklog_to_incident" /\ Sent("PUT") # {}
\* The argument x was given and is not empty.
C15_NonEmpty(x) == x # "<None>" /\ x # ""
\* The fields of the payload, with details as the argument d of the call
\* determines it.
C15_Payload(d) ==
    LET a == last.args
    IN [k \in {"z1D_Details", "z1D_View_Access", "z1D_Activity_Type", "z1D_Secure_Log"} |->
          CASE k = "z1D_Details" -> d
            [] k = "z1D_View_Access" ->
                  IF C15_NonEmpty(a.view_access) THEN a.view_access ELSE "Public"
            [] k = "z1D_Activity_Type" ->
                  IF C15_NonEmpty(a.activity_type) THEN a.activity_type
                  ELSE "General Information"
            [] OTHER -> IF C15_NonEmpty(a.secure_log) THEN a.secure_log ELSE "Yes"]

\* C15, as claimed: the PUT of add_worklog_to_incident carries the JSON
\* document {"values": {...}} of exactly the four fields, each the argument
\* when it is given and not empty and else its default: "No details entered",
\* "Public", "General Information", "Yes".
C15_PayloadAsClaimed ==
    WorklogWrote =>
        /\ Reqs[2].body.kind = "json"
        /\ Reqs[2].body.values =
              C15_Payload(IF C15_NonEmpty(last.args.details) THEN last.args.details
                          ELSE "No details entered")

\* C15, amended: the same, but z1D_Details is the details argument whenever
\* one is given, the empty string included, and "No details entered" only
\* when it is None.
C15_WorklogPayload ==
    WorklogWrote =>
        /\ Reqs[2].body.kind = "json"
        /\ Reqs[2].body.values =
              C15_Payload(IF last.args.details # "<None>" THEN last.args.details
                          ELSE "No details entered")
C15_Witness ==
    /\ WorklogWrote
    /\ last.args.details = ""
    /\ last.args.activity_type = ""
    /\ last.args.view_access = "<None>"
    /\ last.args.secure_log = "No"
    /\ Reqs[2].body.values["z1D_Details"] = ""
    /\ Reqs[2].body.values["z1D_Activity_Type"] = "General Information"
    /\ Reqs[2].body.values["z1D_View_Access"] = "Public"
    /\ Reqs[2].body.values["z1D_Secure_Log"] = "No"

\* The step is a call of one of the operations ops whose one request, to the
\* endpoint path, was answered with a 4xx/5xx status.
C16_FailedRequest(ops, path) ==
    /\ last.op = ""
    /\ last'.op \in ops
    /\ Len(last'.res.reqs) = 1
    /\ last'.res.reqs[1].url = base_url' \o path
    /\ last'.res.resps[1].status >= 400

\* The operations that run get_token: itself, build_request_headers, and
\* through it __init__ and create_form_entry with a headers argument.
C16_LoginOps == {"get_token", "build_request_headers", "create_form_entry", "__init__"}

\* C16: a call whose login request (the request of get_token) is answered
\* with an error status leaves isLoggedin as it was, so false when it was
\* false, and reqHeaders too; a release_token call whose logout request is answered with an error status
\* leaves isLoggedin true and reqHeaders as it was; both calls end with the
\* HTTPError.
C16_FailedAuthKeepsSession ==
    [][/\ C16_FailedRequest(C16_LoginOps, "/jwt/login") =>
            /\ isLoggedin' = isLoggedin
            /\ reqHeaders' = reqHeaders
            /\ last'.res.exc = "HTTPError"
       /\ C16_FailedRequest({"release_token"}, "/jwt/logout") =>
            /\ isLoggedin /\ isLoggedin'
            /\ reqHeaders' = reqHeaders
            /\ last'.res.exc = "HTTPError"]_vars
C16_Witness ==
    /\ last.op = "release_token"
    /\ Len(Reqs) = 1
    /\ Resps[1].status = 500
    /\ last.res.exc = "HTTPError"
    /\ isLoggedin
    /\ Reqs[1].headers = reqHeaders

\* The last call is one of the three operations that write and read back.
C17_Op == last.op \in {"update_form_entry", "attach_file_to_incident",
                       "add_worklog_to_incident"}
\* The writes of the last call the server applied: its PUT requests that were
\* answered with success.
AppliedWrites == {i \in Sent("PUT") : Resps[i].status < 400}

\* C17: when the PUT of update_form_entry, attach_file_to_incident or
\* add_worklog_to_incident succeeded, the call issues after it exactly one
\* request, a GET of the entry written, and no other write; when that GET is
\* answered with an error the call ends in error with the write applied; and
\* the call returns only when its PUT and the GET after it both succeeded.
C17_WriteThenReadNotAtomic ==
    C17_Op =>
        /\ \A p \in AppliedWrites :
              /\ Sent("PUT") = {p}
              /\ Sent("POST") = {} /\ Sent("DELETE") = {}
              /\ Len(Reqs) = p + 1
              /\ Reqs[p + 1].method = "GET"
              /\ Reqs[p + 1].url = Reqs[p].url
              /\ Resps[p + 1].status >= 400 => last.res.exc = "HTTPError"
        /\ last.res.exc = "" =>
              /\ AppliedWrites # {}
              /\ Reqs[Len(Reqs)].method = "GET"
              /\ Resps[Len(Reqs)].status < 400
C17_Witness ==
    /\ last.op = "attach_file_to_incident"
    /\ Len(Reqs) = 3
    /\ AppliedWrites = {2}
    /\ Resps[2].status = 204
    /\ Resps[3].status = 500
    /\ last.res.exc = "HTTPError"

====
